---- MODULE Spec2Model ----
(***************************************************************************)
(* The resilient stream relay of src/api/account-events.ts.                *)
(*                                                                         *)
(* The file holds two copies of the relay: the WebSocket relay (lines      *)
(* 1-167), which broadcasts to the clients of a process-wide               *)
(* WebSocketServer, and the server-push relay (lines 168-325), which       *)
(* writes to the response of the request that started it.  `variant`      *)
(* says which of the two a behaviour runs.                                 *)
(*                                                                         *)
(* An action is one run of the event loop: from the resumption of an       *)
(* await (a unit from the upstream iterator, the retry timer, a request)    *)
(* to the next await.  The recursion of streamLiveEvents is kept as a      *)
(* stack of the callers suspended inside their for-await loop.             *)
(***************************************************************************)
EXTENDS Integers, Sequences, FiniteSets, TLC

\* ---------------------------------------------------------------- bounds
MaxVersion == 2     \* the ledger holds the versions 0 .. MaxVersion-1
MaxResumes == 1     \* resume signals (dropped, wire type) in one behaviour
MaxClients == 2     \* WebSocket clients that connect

\* --------------------------------------------------------- configuration
STARTING_VERSION == 0
MODULE_ADDRESS == "0xf57ffdaa57e13bc27ac9b46663749a5d03a846ada4007dfdf1483d482b48dace"
MAX_RETRIES == 5
EXPECTED_CHAIN_ID == 2

VARIABLES
  variant,         \* "ws" | "sse": which copy of the relay runs
  wss,             \* ws: the WebSocketServer exists (line 12)
  clients,         \* ws: the size of wss.clients
  pc,              \* "idle" | "streaming" | "backoff" | "finished"
  retryCount,      \* of the running (or last run) call of streamLiveEvents
  currentVersion,  \* of the running (or last run) call of streamLiveEvents
  stack,           \* the callers suspended inside their for-await loop
  sessionPos,      \* the version the upstream sends next on this connection
  abandoned,       \* "Max retries reached" was logged
  raised,          \* the outermost call rejected
  res,             \* sse: the response
  runConnects,     \* connections opened since the last fresh (re)start
  loopsStarted,    \* calls of streamLiveEvents made by the handler
  sessionPub,      \* the raw events this connection's session has published
  prevPub,         \* those of the session a "Connection dropped" interrupted,
                   \* while the session that resumed it runs
  resumesLeft,     \* the resume signals still to come
  last             \* the last step of the relay

vars == <<variant, wss, clients, pc, retryCount, currentVersion, stack,
          sessionPos, abandoned, raised, res, runConnects, loopsStarted,
          sessionPub, prevPub, resumesLeft, last>>

\* ------------------------------------------------------- the upstream feed
TypeId(name) == MODULE_ADDRESS \o "::truthoracle::" \o name

Ev(typeStr, data) == [typeStr |-> typeStr, data |-> data]

\* The transactions of the ledger, repeated from the start when the ledger
\* is longer: their raw events, or no `user` part at all.
TxnShapes ==
  << [hasUser |-> TRUE,  events |-> << Ev("0x1::truthoracle::MarketCreated", "{}"),
                                       Ev(TypeId("MarketCreated"), "{\"a\":1}"),
                                       Ev(TypeId("buy_shares"), "{bad") >>],
     [hasUser |-> TRUE,  events |-> << Ev(TypeId("MarketCreatedV2"), "{\"a\":1}"),
                                       Ev(TypeId("buy_shares"), "{\"a\":1}"),
                                       Ev(TypeId("Resolved"), "{bad"),
                                       Ev(TypeId("withdraw_payout"), "{}") >>],
     [hasUser |-> FALSE, events |-> <<>>] >>

\* The ledger is immutable: version v is the same transaction on every
\* connection.
Txn(v) ==
  LET shape == TxnShapes[(v % Len(TxnShapes)) + 1]
  IN  [version |-> v, seconds |-> 1000 + v,
       hasUser |-> shape.hasUser, events |-> shape.events]

\* The next k transactions of a connection that has reached version p.
Batch(p, k) == [i \in 1..k |-> Txn(p + i - 1)]

ChainIds == {1, EXPECTED_CHAIN_ID}

\* The two signals the upstream resumes after, and what else an error or a
\* status unit may carry.
DroppedSignal == [code |-> 14, details |-> "Connection dropped"]

WireTypeSignal == [code |-> 13, details |-> "proto: invalid wire type 7"]

Faults ==
  { DroppedSignal,
    WireTypeSignal,
    [code |-> 14, details |-> "Connection dropped by peer"],
    [code |-> 13, details |-> "Internal"],
    [code |-> 2,  details |-> "Unknown"],
    [code |-> 0,  details |-> "OK"] }

\* ------------------------------------------------------------- the relay
Includes(s, sub) ==
  \E i \in 1..(Len(s) + 1) :
    /\ i + Len(sub) - 1 <= Len(s)
    /\ SubSeq(s, i, i + Len(sub) - 1) = sub

\* JSON.parse on the payloads of the ledger.
JSONparse(s) ==
  CASE s = "{\"a\":1}" -> [ok |-> TRUE, value |-> << <<"a", 1>> >>]
    [] s = "{}"        -> [ok |-> TRUE, value |-> << >>]
    [] OTHER           -> [ok |-> FALSE, value |-> << >>]

InterestTable ==
  { TypeId("MarketCreated"), TypeId("buy_shares"), TypeId("withdraw_payout") }

\* isAccountRelatedEvent without its JSON.parse.
isAccountRelatedEvent_IgnoresDecode(event) == event.typeStr \in InterestTable

\* buy_shares compared before the payload is parsed.
isAccountRelatedEvent_BuySharesUnparsed(event) ==
  IF event.typeStr = TypeId("buy_shares") THEN TRUE
  ELSE IF ~JSONparse(event.data).ok THEN FALSE
  ELSE IF event.typeStr = TypeId("MarketCreated") THEN TRUE
  ELSE IF event.typeStr = TypeId("withdraw_payout") THEN TRUE
  ELSE FALSE

isAccountRelatedEvent(event) ==
  IF ~JSONparse(event.data).ok THEN FALSE
  ELSE IF event.typeStr = TypeId("MarketCreated") THEN TRUE
  ELSE IF event.typeStr = TypeId("buy_shares") THEN TRUE
  ELSE IF event.typeStr = TypeId("withdraw_payout") THEN TRUE
  ELSE FALSE

\* The data case without its chainId check.
ChainOk_Any(chainId) == TRUE

ChainOk(chainId) == chainId = EXPECTED_CHAIN_ID

\* The dropped test on the code alone.
IsDropped_CodeOnly(f) == f.code = 14

IsDropped(f) == f.code = 14 /\ f.details = "Connection dropped"

IsWireType(f) == f.code = 13 /\ Includes(f.details, "invalid wire type")

\* retryCount <= MAX_RETRIES
CanRetry_OffByOne(rc) == rc <= MAX_RETRIES

\* The counter incremented before it is compared.
CanRetry_IncrementFirst(rc) == rc + 1 < MAX_RETRIES

CanRetry(rc) == rc < MAX_RETRIES

EventsOf(txn) == IF txn.hasUser THEN txn.events ELSE <<>>

\* The raw events of a data unit in the order the two loops visit them.
RECURSIVE Visit(_)
Visit(txns) ==
  IF txns = <<>> THEN <<>>
  ELSE LET txn == Head(txns)
       IN  [i \in 1..Len(EventsOf(txn)) |->
              [version |-> txn.version, timestamp |-> txn.seconds,
               idx |-> i, evt |-> EventsOf(txn)[i]]] \o Visit(Tail(txns))

\* The message taking its timestamp from the version.
Message_VersionAsTimestamp(e) ==
  [type |-> "account_event",
   data |-> [version |-> e.version, event_type |-> e.evt.typeStr,
             event_data |-> JSONparse(e.evt.data).value,
             timestamp |-> e.version]]

Message(e) ==
  [type |-> "account_event",
   data |-> [version |-> e.version, event_type |-> e.evt.typeStr,
             event_data |-> JSONparse(e.evt.data).value,
             timestamp |-> e.timestamp]]

\* The sinks a message may be handed to: the response, or the clients of
\* wss whose readyState is OPEN when forEach reaches them.  The state of a
\* socket is the network's: each broadcast finds some of them open.
SinkChoices ==
  IF variant = "sse" THEN {{0}} ELSE SUBSET (1..clients)

\* The relay as a record, so that the steps compose.
Relay ==
  [pc |-> pc, retryCount |-> retryCount, currentVersion |-> currentVersion,
   stack |-> stack, sessionPos |-> sessionPos, abandoned |-> abandoned,
   raised |-> raised, res |-> res, runConnects |-> runConnects,
   sessionPub |-> sessionPub, prevPub |-> prevPub, completion |-> "none"]

Commit(r) ==
  /\ pc' = r.pc
  /\ retryCount' = r.retryCount
  /\ currentVersion' = r.currentVersion
  /\ stack' = r.stack
  /\ sessionPos' = r.sessionPos
  /\ abandoned' = r.abandoned
  /\ raised' = r.raised
  /\ res' = r.res
  /\ runConnects' = r.runConnects
  /\ sessionPub' = r.sessionPub
  /\ prevPub' = r.prevPub

\* for await (... of streamTransactions({startingVersion: currentVersion})):
\* a connection is opened at currentVersion.  `how` is "start", "dropped",
\* "wiretype" or "retry".
Connect(r, how) ==
  [r EXCEPT !.pc = "streaming",
            !.sessionPos = r.currentVersion,
            !.runConnects = IF how = "retry" THEN @ + 1 ELSE 1,
            !.sessionPub = {},
            !.prevPub = IF how = "dropped" THEN r.sessionPub ELSE {}]

\* res.writeHead accepting a second call.
WriteHead_Rewrites(r) ==
  [ok |-> TRUE,
   r |-> [r EXCEPT !.res.headersSent = TRUE,
                   !.res.headWrites = @ + 1,
                   !.res.initWrites = @ + 1]]

\* res.writeHead and the first res.write; writeHead throws once the headers
\* are out.
WriteHead(r) ==
  IF r.res.headersSent
  THEN [ok |-> FALSE, r |-> r]
  ELSE [ok |-> TRUE,
        r |-> [r EXCEPT !.res.headersSent = TRUE,
                        !.res.headWrites = @ + 1,
                        !.res.initWrites = @ + 1]]

\* The else branch of the catch block, rethrowing the error.
Abandon_Rethrows(r) ==
  [r EXCEPT !.abandoned = TRUE,
            !.completion = "throw",
            !.res.ended = IF variant = "sse" THEN TRUE ELSE @]

\* The else branch of the catch block.
Abandon(r) ==
  [r EXCEPT !.abandoned = TRUE,
            !.completion = "return",
            !.res.ended = IF variant = "sse" THEN TRUE ELSE @]

RECURSIVE Unwind(_), Catch(_)

\* The catch block of the running call.
Catch(r) ==
  IF CanRetry(r.retryCount)
  THEN [r EXCEPT !.pc = "backoff", !.completion = "none"]
  ELSE Unwind(Abandon(r))

\* The running call has completed, and with it every caller that awaits it
\* from its catch block.  A caller that awaits it from inside its for-await
\* loop completes the same way, unless the call threw: then its own catch
\* block runs.
Unwind(r) ==
  IF r.stack = <<>>
  THEN [r EXCEPT !.pc = "finished",
                 !.raised = (r.completion = "throw"),
                 !.completion = "none"]
  ELSE LET f == Head(r.stack)
       IN  IF r.completion = "throw"
           THEN Catch([r EXCEPT !.stack = Tail(@),
                                !.retryCount = f.retryCount,
                                !.currentVersion = f.currentVersion])
           ELSE Unwind([r EXCEPT !.stack = Tail(@)])

\* The body of streamLiveEvents up to its first await.
Enter(r, rc, cv, how) ==
  LET r0 == [r EXCEPT !.retryCount = rc, !.currentVersion = cv]
  IN  IF variant = "sse"
      THEN LET w == WriteHead(r0)
           IN  IF w.ok THEN Connect(w.r, how) ELSE Catch(w.r)
      ELSE Connect(r0, how)

\* return await streamLiveEvents(...) inside the for-await loop: the caller
\* stays suspended in its try block, its connection open.
CallFromTry(r, rc, cv, how) ==
  Enter([r EXCEPT !.stack = << [retryCount |-> r.retryCount,
                                currentVersion |-> r.currentVersion] >> \o @],
        rc, cv, how)

ResumeSameCursor(r) == CallFromTry(r, 0, r.currentVersion, "dropped")

\* The wire type case going back to the configured start.
ResumeNextCursor_FromStart(r) == CallFromTry(r, 0, STARTING_VERSION, "wiretype")

ResumeNextCursor(r) == CallFromTry(r, 0, r.currentVersion + 1, "wiretype")

\* return await streamLiveEvents(...) in the catch block, after the delay.
\* The retry passing retryCount + 2.
RetryAfterDelay_ByTwo(r) == Enter(r, r.retryCount + 2, r.currentVersion, "retry")

RetryAfterDelay(r) == Enter(r, r.retryCount + 1, r.currentVersion, "retry")

\* ------------------------------------------------------------------ Init
InitButBudget ==
  /\ variant \in {"ws", "sse"}
  /\ wss = FALSE
  /\ clients = 0
  /\ pc = "idle"
  /\ retryCount = 0
  /\ currentVersion = STARTING_VERSION
  /\ stack = <<>>
  /\ sessionPos = STARTING_VERSION
  /\ abandoned = FALSE
  /\ raised = FALSE
  /\ res = [headersSent |-> FALSE, headWrites |-> 0, initWrites |-> 0,
            ended |-> FALSE]
  /\ runConnects = 0
  /\ loopsStarted = 0
  /\ sessionPub = {}
  /\ prevPub = {}
  /\ last = [kind |-> "init", note |-> "", unit |-> <<>>, out |-> <<>>]

Init == InitButBudget /\ resumesLeft = MaxResumes

\* --------------------------------------------------------------- actions
Step(kind, note) ==
  last' = [kind |-> kind, note |-> note, unit |-> <<>>, out |-> <<>>]

Broadcasting == variant = "sse" \/ wss

Matched(unit) ==
  IF Broadcasting
  THEN SelectSeq(Visit(unit.transactions),
                 LAMBDA e : isAccountRelatedEvent(e.evt))
  ELSE <<>>

\* The broadcasts a data unit begins.  `fail` names the send that throws:
\* the one of the nth matching event to sink `sink`; nth = 0 when none does.
\* forEach visits the sinks in order, so the sinks after the one that throws
\* are not reached.
Publish(matched, sinks, fail) ==
  [k \in 1..(IF fail.nth = 0 THEN Len(matched) ELSE fail.nth) |->
     [message |-> Message(matched[k]),
      src |-> <<matched[k].version, matched[k].idx>>,
      to |-> IF k = fail.nth THEN {s \in sinks : s < fail.sink} ELSE sinks,
      skipped |-> IF k = fail.nth THEN {s \in sinks : s > fail.sink} ELSE {},
      threw |-> (k = fail.nth)]]

\* case "data", a unit handled without a fault clearing the retry counter.
HandleData_ResetsOnSuccess(r, unit, sinks, fail) ==
  IF ~ChainOk(unit.chainId)
  THEN [r |-> Catch(r), out |-> <<>>]
  ELSE LET out == Publish(Matched(unit), sinks, fail)
           r1 == [r EXCEPT !.sessionPub = @ \cup {out[i].src : i \in 1..Len(out)}]
       IN  [r |-> IF fail.nth = 0
                  THEN [r1 EXCEPT !.sessionPos = @ + Len(unit.transactions),
                                  !.retryCount = 0]
                  ELSE Catch(r1),
            out |-> out]

\* case "data"
HandleData(r, unit, sinks, fail) ==
  IF ~ChainOk(unit.chainId)
  THEN [r |-> Catch(r), out |-> <<>>]
  ELSE LET out == Publish(Matched(unit), sinks, fail)
           r1 == [r EXCEPT !.sessionPub = @ \cup {out[i].src : i \in 1..Len(out)}]
       IN  [r |-> IF fail.nth = 0
                  THEN [r1 EXCEPT !.sessionPos = @ + Len(unit.transactions)]
                  ELSE Catch(r1),
            out |-> out]

\* case "error", falling through to case "metadata"
HandleError(r, error) ==
  IF IsDropped(error) THEN ResumeSameCursor(r) ELSE r

\* case "status"
HandleStatus(r, status) ==
  IF status.code # 0 /\ IsWireType(status) THEN ResumeNextCursor(r)
  ELSE IF status.code # 0 /\ IsDropped(status) THEN ResumeSameCursor(r)
  ELSE r

FailChoices(unit, sinks) ==
  {[nth |-> 0, sink |-> 0]} \cup
  IF ChainOk(unit.chainId)
  THEN {[nth |-> n, sink |-> s] : n \in 1..Len(Matched(unit)), s \in sinks}
  ELSE {}

ReceiveData ==
  /\ pc = "streaming"
  /\ \E chainId \in ChainIds, k \in 1..MaxVersion :
       /\ sessionPos + k <= MaxVersion
       /\ LET unit == [type |-> "data", chainId |-> chainId,
                       transactions |-> Batch(sessionPos, k)]
          IN  \E sinks \in SinkChoices : \E fail \in FailChoices(unit, sinks) :
                LET h == HandleData(Relay, unit, sinks, fail)
                IN  /\ Commit(h.r)
                    /\ last' = [kind |-> "data",
                                note |-> IF chainId # EXPECTED_CHAIN_ID THEN "badchain"
                                         ELSE IF fail.nth # 0 THEN "sinkfail"
                                         ELSE "ok",
                                unit |-> Visit(unit.transactions),
                                out |-> h.out]
  /\ UNCHANGED <<variant, wss, clients, loopsStarted, resumesLeft>>

\* What the upstream sent, for `last`.
Signal(f) ==
  IF f = DroppedSignal THEN "dropped"
  ELSE IF f = WireTypeSignal THEN "wiretype"
  ELSE IF f.code = 0 THEN "zero"
  ELSE "other"

\* The upstream sends a resume signal MaxResumes times at most.
Budgeted(r) ==
  /\ Len(r.stack) > Len(stack) => resumesLeft > 0
  /\ resumesLeft' = IF Len(r.stack) > Len(stack) THEN resumesLeft - 1
                    ELSE resumesLeft

ReceiveError ==
  /\ pc = "streaming"
  /\ \E error \in Faults :
       LET r == HandleError(Relay, error)
       IN  /\ Budgeted(r)
           /\ Commit(r)
           /\ Step("error", IF Signal(error) = "dropped" THEN "dropped" ELSE "other")
  /\ UNCHANGED <<variant, wss, clients, loopsStarted>>

ReceiveStatus ==
  /\ pc = "streaming"
  /\ \E status \in Faults :
       LET r == HandleStatus(Relay, status)
       IN  /\ Budgeted(r)
           /\ Commit(r)
           /\ Step("status", Signal(status))
  /\ UNCHANGED <<variant, wss, clients, loopsStarted>>

ReceiveMetadata ==
  /\ pc = "streaming"
  /\ Commit(Relay)
  /\ Step("metadata", "other")
  /\ UNCHANGED <<variant, wss, clients, loopsStarted, resumesLeft>>

\* The iterator rejects: the connection could not be made or broke.
IteratorThrows ==
  /\ pc = "streaming"
  /\ Commit(Catch(Relay))
  /\ Step("throw", "")
  /\ UNCHANGED <<variant, wss, clients, loopsStarted, resumesLeft>>

\* The iterator is done: the loop ends and the call returns.
IteratorEnds ==
  /\ pc = "streaming"
  /\ Commit(Unwind([Relay EXCEPT !.completion = "return"]))
  /\ Step("end", "")
  /\ UNCHANGED <<variant, wss, clients, loopsStarted, resumesLeft>>

\* The RETRY_DELAY timer fires.
RetryTimer ==
  /\ pc = "backoff"
  /\ Commit(RetryAfterDelay(Relay))
  /\ Step("timer", "")
  /\ UNCHANGED <<variant, wss, clients, loopsStarted, resumesLeft>>

\* The server is created, and the loop started, on every GET.
NeedsServer_Always(w) == TRUE

\* if (!wss)
NeedsServer(w) == ~w

\* One request to the WebSocket handler (lines 134-167).
HandlerWsReq(method, upgrade) ==
  /\ upgrade => clients < MaxClients
  /\ IF method = "GET"
     THEN /\ wss' = TRUE
          /\ IF NeedsServer(wss)
             THEN /\ Commit(Enter(Relay, 0, STARTING_VERSION, "start"))
                  /\ loopsStarted' = loopsStarted + 1
                  /\ Step("start", "")
             ELSE /\ Commit(Relay)
                  /\ UNCHANGED <<loopsStarted, last>>
          /\ clients' = IF upgrade THEN clients + 1 ELSE clients
     ELSE /\ Commit(Relay)
          /\ UNCHANGED <<wss, clients, loopsStarted, last>>

\* The WebSocket handler.
HandlerWs ==
  /\ variant = "ws"
  /\ \E method \in {"GET", "POST"}, upgrade \in BOOLEAN :
       HandlerWsReq(method, upgrade)
  /\ UNCHANGED <<variant, resumesLeft>>

\* The server-push handler (lines 319-325), for the one response modelled.
HandlerSse ==
  /\ variant = "sse"
  /\ pc = "idle"
  /\ \E method \in {"GET", "POST"} :
       IF method = "GET"
       THEN /\ Commit(Enter(Relay, 0, STARTING_VERSION, "start"))
            /\ loopsStarted' = loopsStarted + 1
            /\ Step("start", "")
       ELSE /\ Commit(Relay)
            /\ UNCHANGED <<loopsStarted, last>>
  /\ UNCHANGED <<variant, wss, clients, resumesLeft>>

Next ==
  \/ HandlerWs
  \/ HandlerSse
  \/ ReceiveData
  \/ ReceiveError
  \/ ReceiveStatus
  \/ ReceiveMetadata
  \/ IteratorThrows
  \/ IteratorEnds
  \/ RetryTimer

Spec == Init /\ [][Next]_vars

\* Persistent faults: the upstream never ends a connection in good order,
\* and every connection breaks in the end.  The timer of the event loop
\* fires.  At most one resume signal comes before the faults persist.
InitFaults == InitButBudget /\ resumesLeft \in {0, 1}

NextFaults ==
  \/ HandlerWs
  \/ HandlerSse
  \/ ReceiveData
  \/ ReceiveError
  \/ ReceiveStatus
  \/ ReceiveMetadata
  \/ IteratorThrows
  \/ RetryTimer

SpecFaults ==
  /\ InitFaults
  /\ [][NextFaults]_vars
  /\ WF_vars(RetryTimer)
  /\ WF_vars(IteratorThrows)

\* ---------------------------------------------------------------- claims
Src(e) == <<e.version, e.idx>>

PublishedIn(out, e) == \E j \in 1..Len(out) : out[j].src = Src(e)

Matching(e) == e.evt.typeStr \in InterestTable /\ JSONparse(e.evt.data).ok

\* The last step was a fault reaching the catch block from the session.
Faulted ==
  \/ last.kind = "throw"
  \/ last.kind = "data" /\ last.note \in {"badchain", "sinkfail"}

\* C1: across one "Connection dropped" and the session that resumes it, no
\* raw event is published by both sessions (and so none twice).
C1_ExactlyOnceAcrossDrop == prevPub \cap sessionPub = {}

\* C2: after a status unit with code 13 and "invalid wire type", the next
\* session runs at cursor + 1 with retry counter 0, with no backoff between.
C2_WireTypeResumesAtNext ==
  (last.kind = "status" /\ last.note = "wiretype") =>
    /\ pc = "streaming"
    /\ retryCount = 0
    /\ stack # <<>>
    /\ currentVersion = Head(stack).currentVersion + 1
    /\ sessionPos = currentVersion

\* C3: after an error or a status unit signaling "Connection dropped", the
\* next session runs at the same cursor with retry counter 0, and nothing
\* was published for the unit.
C3_DroppedResumesAtSame ==
  (last.kind \in {"error", "status"} /\ last.note = "dropped") =>
    /\ pc = "streaming"
    /\ retryCount = 0
    /\ runConnects = 1
    /\ stack # <<>>
    /\ currentVersion = Head(stack).currentVersion
    /\ sessionPos = currentVersion
    /\ last.out = <<>>
    /\ sessionPub = {}

\* C4: a run of faults with no resume between opens MAX_RETRIES + 1
\* connections at most, and under persistent faults the relay, once
\* started, reaches Abandoned.
C4_BoundedAttempts ==
  /\ [](runConnects <= MAX_RETRIES + 1)
  /\ (pc # "idle") ~> abandoned

C4_Witness ==
  /\ variant = "ws"
  /\ abandoned
  /\ runConnects = MAX_RETRIES + 1

\* C5 as claimed: the counter is incremented, then compared, so that a fault
\* at counter MAX_RETRIES - 1 abandons.
C5_IncrementThenCompare ==
  (Faulted /\ retryCount + 1 >= MAX_RETRIES) => abandoned

\* C5 amended: the counter is compared, then incremented.  A fault at a
\* counter below MAX_RETRIES waits, and the timer re-enters streamLiveEvents
\* at the same cursor with the counter incremented (in the WebSocket relay
\* the re-entry opens a connection at that cursor); a fault at MAX_RETRIES
\* abandons.
C5_CompareThenIncrement ==
  /\ [](Faulted => IF retryCount < MAX_RETRIES
                   THEN pc = "backoff" /\ ~abandoned
                   ELSE pc = "finished" /\ abandoned)
  /\ [][(pc = "backoff" /\ last'.kind = "timer") =>
          /\ retryCount' = retryCount + 1
          /\ currentVersion' = currentVersion
          /\ (variant = "ws") => (pc' = "streaming" /\ sessionPos' = currentVersion)]_vars

C5_Witness ==
  /\ variant = "ws"
  /\ last.kind = "timer"
  /\ pc = "streaming"
  /\ retryCount = MAX_RETRIES

\* C6 as claimed: of a data unit on the expected chain, a raw event is
\* published exactly when its type is in the table, whatever its payload.
C6_PublishedIffTypeMatches ==
  (last.kind = "data" /\ last.note = "ok") =>
    \A i \in 1..Len(last.unit) :
      (last.unit[i].evt.typeStr \in InterestTable) <=> PublishedIn(last.out, last.unit[i])

\* The raw events of the last data unit the relay reached: all of them, or
\* those up to the one whose publish threw.
Reached(i) ==
  \/ last.note = "ok"
  \/ /\ last.note = "sinkfail"
     /\ \E j \in i..Len(last.unit) : Src(last.unit[j]) = last.out[Len(last.out)].src

\* C6 amended: of a data unit on the expected chain, a raw event the relay
\* reaches is published exactly when its type is in the table and its
\* payload decodes.
C6_PublishedIffMatchesAndDecodes ==
  last.kind = "data" =>
    \A i \in 1..Len(last.unit) :
      Reached(i) => (Matching(last.unit[i]) <=> PublishedIn(last.out, last.unit[i]))

C6_Witness ==
  /\ last.kind = "data"
  /\ last.note = "ok"
  /\ \E i \in 1..Len(last.unit) :
       /\ last.unit[i].evt.typeStr \in InterestTable
       /\ ~JSONparse(last.unit[i].evt.data).ok
       /\ ~PublishedIn(last.out, last.unit[i])
  /\ \E i \in 1..Len(last.unit) : PublishedIn(last.out, last.unit[i])

\* C7: a publish that throws leaves the session running, the retry path
\* untouched, and the other sinks served.
C7_SinkFailureIsolated ==
  (last.kind = "data" /\ last.note = "sinkfail") =>
    /\ pc = "streaming"
    /\ \A i \in 1..Len(last.out) : last.out[i].skipped = {}

\* C8: a data unit of another chain publishes nothing and ends the session
\* in the catch block, cursor and retry counter as they were.
C8_WrongChainNeverPublished ==
  [][(pc = "streaming" /\ last'.kind = "data" /\ last'.note = "badchain") =>
       /\ last'.out = <<>>
       /\ sessionPub' = sessionPub
       /\ currentVersion' = currentVersion
       /\ retryCount' = retryCount
       /\ pc' = IF retryCount < MAX_RETRIES THEN "backoff" ELSE "finished"]_vars

C8_Witness ==
  /\ last.kind = "data"
  /\ last.note = "badchain"
  /\ pc = "backoff"
  /\ \E i \in 1..Len(last.unit) : Matching(last.unit[i])

\* C9: an error unit that is not "Connection dropped" ends the session.
C9_OtherErrorIsFatal ==
  (last.kind = "error" /\ last.note = "other") => pc # "streaming"

\* C10: once Abandoned, the relay is finished and stays as it is: it opens
\* no connection, publishes nothing, and its outermost call has not
\* rejected.
C10_AbandonedIsTerminal ==
  /\ [](abandoned => (pc = "finished" /\ ~raised))
  /\ [][abandoned => UNCHANGED <<pc, retryCount, currentVersion, stack,
                                  sessionPos, abandoned, raised, res,
                                  runConnects, sessionPub, prevPub, last>>]_vars

C10_Witness ==
  /\ abandoned
  /\ pc = "finished"
  /\ resumesLeft < MaxResumes
  /\ retryCount = MAX_RETRIES

\* C11: a relay that was started and has not reached Abandoned is connected
\* or in its backoff wait; a feed that ends without a fault does not stop it.
C11_StopsOnlyByAbandoned ==
  (loopsStarted > 0 /\ ~abandoned) => pc \in {"streaming", "backoff"}

\* C12: the WebSocket handler starts streamLiveEvents at most once: only a
\* GET that finds no server starts it, with the relay idle; a GET while the
\* relay runs or after Abandoned, and a request of another method, start
\* nothing.
C12_StartIsIdempotent ==
  /\ [](variant = "ws" => loopsStarted = IF wss THEN 1 ELSE 0)
  /\ [][(variant = "ws" /\ loopsStarted' # loopsStarted) =>
          /\ ~wss
          /\ pc = "idle"
          /\ loopsStarted' = 1
          /\ \E u \in BOOLEAN : HandlerWsReq("GET", u)]_vars
  /\ [][(variant = "ws" /\ \E u \in BOOLEAN : HandlerWsReq("POST", u)) =>
          loopsStarted' = loopsStarted]_vars

C12_Witness ==
  /\ variant = "ws"
  /\ abandoned
  /\ loopsStarted = 1
  /\ clients = MaxClients

\* The step is a resume: a dropped or a wire type signal was acted on.
ResumeStep == resumesLeft' # resumesLeft

\* C13: the cursor never decreases; it is unchanged by a retry and by a
\* dropped resume, and it changes only by a wire type resume, by exactly 1.
C13_CursorMonotone ==
  [][/\ currentVersion' >= currentVersion
     /\ (currentVersion' # currentVersion) =>
          (ResumeStep /\ last'.note = "wiretype")
     /\ (ResumeStep /\ last'.note = "wiretype") =>
          currentVersion' = currentVersion + 1
     /\ (ResumeStep /\ last'.note = "dropped") =>
          currentVersion' = currentVersion
     /\ (pc = "backoff" /\ last'.kind = "timer") =>
          currentVersion' = currentVersion
     /\ (pc' = "streaming" /\ (pc # "streaming" \/ ResumeStep)) =>
          sessionPos' = currentVersion']_vars

C13_Witness ==
  /\ variant = "ws"
  /\ pc = "streaming"
  /\ last.kind = "timer"
  /\ stack # <<>>
  /\ currentVersion = Head(stack).currentVersion + 1
  /\ sessionPos = currentVersion

\* C14: the retry counter stays in 0 .. MAX_RETRIES; it grows only by 1, at
\* the re-entry that follows a fault caught by the catch block, and it
\* falls only to 0, by a dropped or wire type resume.
C14_RetryCounterBounded ==
  /\ [](retryCount \in 0..MAX_RETRIES)
  /\ [][(retryCount' > retryCount) =>
          /\ retryCount' = retryCount + 1
          /\ pc = "backoff"
          /\ last'.kind = "timer"]_vars
  /\ [][(retryCount' < retryCount) =>
          /\ retryCount' = 0
          /\ ResumeStep
          /\ last'.note \in {"dropped", "wiretype"}]_vars

C14_Witness ==
  /\ variant = "ws"
  /\ pc = "streaming"
  /\ retryCount = 0
  /\ stack # <<>>
  /\ Head(stack).retryCount = MAX_RETRIES

\* The upstream iterators not yet closed: that of the running session, and
\* that of every caller suspended at `return await` inside its for-await
\* loop, whose iterator is closed only when the callee has returned.
OpenIterators == Len(stack) + IF pc = "streaming" THEN 1 ELSE 0

\* C15: at most one upstream iterator is open at any time.
C15_AtMostOneConnection == OpenIterators <= 1

\* Lexicographic order of the positions <<version, index>>.
Before(a, b) == a[1] < b[1] \/ (a[1] = b[1] /\ a[2] < b[2])

\* C16: a published message carries the version and the timestamp of the
\* transaction of its raw event, and the type of that event; the messages
\* of a unit are published in feed order, after those of the earlier units
\* of the session.
C16_EnclosingTransactionInOrder ==
  /\ [](last.kind = "data" =>
         \A j \in 1..Len(last.out) :
           LET o == last.out[j]
               txn == Txn(o.src[1])
           IN  /\ o.message.data.version = txn.version
               /\ o.message.data.timestamp = txn.seconds
               /\ o.message.data.event_type = txn.events[o.src[2]].typeStr
               /\ \A k \in (j + 1)..Len(last.out) : Before(o.src, last.out[k].src))
  /\ [][(pc = "streaming" /\ last'.kind = "data" /\ last' # last) =>
          \A j \in 1..Len(last'.out) : \A q \in sessionPub :
            Before(q, last'.out[j].src)]_vars

C16_Witness ==
  /\ last.kind = "data"
  /\ last.note = "ok"
  /\ Len(last.out) >= 3
  /\ last.out[1].src[1] # last.out[2].src[1]
  /\ last.out[2].src[1] = last.out[3].src[1]

\* C17: a metadata unit, a status unit with code 0, and a status unit with
\* another code that is neither the wire type nor the dropped signal leave
\* the session on its connection, cursor and retry counter as they were,
\* and publish nothing.
C17_StatusNoiseIsIgnored ==
  [][(/\ pc = "streaming"
      /\ last'.kind \in {"status", "metadata"}
      /\ last'.note \in {"other", "zero"}) =>
       /\ pc' = "streaming"
       /\ last'.out = <<>>
       /\ UNCHANGED <<retryCount, currentVersion, stack, sessionPos,
                       sessionPub, prevPub, runConnects, abandoned,
                       resumesLeft>>]_vars

C17_Witness ==
  /\ pc = "streaming"
  /\ last.kind = "status"
  /\ last.note = "other"
  /\ retryCount > 0
  /\ sessionPub # {}

\* C18: a data unit of the expected chain whose publishes succeed leaves
\* the session running, cursor and retry counter as they were, whatever
\* payloads fail to decode; nothing is published for such an event, and
\* every matching event after it is published.
C18_MalformedPayloadIsSkipped ==
  /\ [](last.kind = "data" /\ last.note = "ok" =>
         /\ pc = "streaming"
         /\ \A i \in 1..Len(last.unit) :
              ~JSONparse(last.unit[i].evt.data).ok =>
                /\ ~PublishedIn(last.out, last.unit[i])
                /\ \A j \in (i + 1)..Len(last.unit) :
                     Matching(last.unit[j]) => PublishedIn(last.out, last.unit[j]))
  /\ [][(pc = "streaming" /\ last'.kind = "data" /\ last'.note = "ok") =>
          UNCHANGED <<retryCount, currentVersion, stack, runConnects>>]_vars

C18_Witness ==
  /\ pc = "streaming"
  /\ last.kind = "data"
  /\ last.note = "ok"
  /\ \E i \in 1..Len(last.unit) :
       /\ last.unit[i].evt.typeStr \in InterestTable
       /\ ~JSONparse(last.unit[i].evt.data).ok
       /\ \E j \in (i + 1)..Len(last.unit) : PublishedIn(last.out, last.unit[j])

\* C19: a data unit handled without a fault leaves the retry counter as it
\* was; the counter of a running session is the number of faults since the
\* start or the last resume, whatever was published between them; and a
\* session at counter MAX_RETRIES that has published events is followed,
\* when it faults, by Abandoned.
C19_NoResetOnSuccess ==
  /\ [](pc = "streaming" => runConnects = retryCount + 1)
  /\ [][(pc = "streaming" /\ last'.kind = "data" /\ last'.note = "ok") =>
          retryCount' = retryCount]_vars
  /\ [][(/\ pc = "streaming"
          /\ retryCount = MAX_RETRIES
          /\ sessionPub # {}
          /\ pc' # "streaming"
          /\ last'.kind # "end") => abandoned']_vars

C19_Witness ==
  /\ variant = "ws"
  /\ abandoned
  /\ retryCount = MAX_RETRIES
  /\ sessionPub # {}
  /\ resumesLeft = MaxResumes
  /\ last.kind = "throw"

\* C20: the response of the server-push relay gets its header and its
\* connection_status message once, whatever re-entries follow, and nothing
\* once it is ended.
C20_HeaderWrittenOnce ==
  /\ [](variant = "sse" =>
         /\ res.headWrites = (IF pc = "idle" THEN 0 ELSE 1)
         /\ res.initWrites = res.headWrites
         /\ res.ended => (abandoned /\ pc = "finished"))
  /\ [][(variant = "sse" /\ res.ended) =>
          UNCHANGED <<res, sessionPub, last, pc>>]_vars

C20_Witness ==
  /\ variant = "sse"
  /\ res.ended
  /\ res.headWrites = 1
  /\ retryCount = MAX_RETRIES
  /\ resumesLeft < MaxResumes

====
